---- MODULE Spec2Model ----
(***************************************************************************)
(* GLMOCRConverter: the three variants of the OCR backend adapter.         *)
(*   cloud          src/unnamed/part_000          (Zhipu cloud API)        *)
(*   localJSON      src/src/converters/glmocrConverter.ts                  *)
(*   localMultipart src/unnamed/part_001          (PDF: multipart body)    *)
(* One call of convert or testConnection is modelled as a sequence of      *)
(* steps, one per await of the code; the code between two awaits is one    *)
(* step.  Strings that are compared or tested for emptiness are sequences  *)
(* of characters, optional fields are sequences of length 0 or 1.          *)
(***************************************************************************)
EXTENDS Integers, Sequences, FiniteSets, TLC

VARIABLES
    variant,    \* which of the three source files is the converter
    pc,         \* position of the running call
    settings,   \* MarkerSettings fields read by the call
    file,       \* the TFile and the vault adapter it is read through
    requests,   \* the requestUrl calls issued by the current call, in order
    response,   \* <<>> or <<r>>: the response of the POST
    thrown,     \* <<>> or <<e>>: the value a rejected await threw
    handed,     \* the ConversionResult.markdown values given to processConversionResult
    persisted,  \* processConversionResult completed
    renamed,    \* app.vault.rename completed
    deleted,    \* deleteOriginalFile completed
    notices,    \* the Notice objects created by the call, in order
    logs,       \* the console.error / console.warn calls of the call, in order
    result,     \* "pending", "true", "false", or "threw" (the promise rejected)
    outcome,    \* the branch convert returned from
    tcEnv       \* what the two health endpoints answer during testConnection

vars == <<variant, pc, settings, file, requests, response, thrown, handed,
          persisted, renamed, deleted, notices, logs, result, outcome, tcEnv>>

(***************************************************************************)
(* Bounds and value sets                                                   *)
(***************************************************************************)
MaxTextLen == 2

Chars == {" ", "a"}

RECURSIVE SeqsUpTo(_)
SeqsUpTo(n) ==
    IF n = 0 THEN {<<>>}
    ELSE LET S == SeqsUpTo(n - 1)
         IN  S \cup {Append(s, c) : s \in {t \in S : Len(t) = n - 1}, c \in Chars}

\* The values an extracted text field can hold.
Texts == SeqsUpTo(MaxTextLen)

\* The values of msg / message fields and of Error.message.
Msgs == {"", "quota exceeded"}

Opt(S) == {<<>>} \cup {<<x>> : x \in S}

Variants == {"cloud", "localJSON", "localMultipart"}

Statuses == {200, 201, 204, 401, 403, 500}

\* JavaScript truthiness of an optional string field (absent or "" is falsy).
TruthyText(o) == o # <<>> /\ o[1] # <<>>

TruthyMsg(o) == o # <<>> /\ o[1] # ""

\* response.text, by what JSON.parse makes of it.
\*   kind "text":   not JSON (JSON.parse throws); rawEmpty: the text is ""
\*   kind "null":   the JSON value null
\*   kind "object": a JSON object with the fields the converters read
BodyOf(kind, rawEmpty, code, msg, md, content, errMessage, message) ==
    [kind |-> kind, rawEmpty |-> rawEmpty, code |-> code, msg |-> msg,
     md_result |-> md, content |-> content, errMessage |-> errMessage,
     message |-> message]

Bodies ==
    {BodyOf("text", e, <<>>, <<>>, <<>>, <<>>, <<>>, <<>>) : e \in BOOLEAN}
    \cup {BodyOf("null", FALSE, <<>>, <<>>, <<>>, <<>>, <<>>, <<>>)}
    \cup {BodyOf("object", FALSE, c, m, t, <<>>, <<>>, <<>>) :
             c \in Opt({0, 1}), m \in Opt(Msgs), t \in Opt(Texts)}
    \cup {BodyOf("object", FALSE, <<>>, <<>>, <<>>, t, em, m) :
             t \in Opt(Texts), em \in Opt(Msgs), m \in Opt(Msgs)}

Responses == [status : Statuses, body : Bodies]

\* What a rejected await can throw: an Error with a message, a value without a
\* message property (a string), or null / undefined.
ThrownValues ==
    {[nullish |-> FALSE, message |-> <<m>>] : m \in Msgs}
    \cup {[nullish |-> FALSE, message |-> <<>>], [nullish |-> TRUE, message |-> <<>>]}

SettingsSet == [hasApiKey : BOOLEAN, movePDFtoFolder : BOOLEAN,
                deleteOriginal : BOOLEAN]

MaxFileLen == 2

RECURSIVE SeqsOver(_, _)
SeqsOver(A, n) ==
    IF n = 0 THEN {<<>>}
    ELSE LET S == SeqsOver(A, n - 1)
         IN  S \cup {Append(t, c) : t \in {u \in S : Len(u) = n - 1}, c \in A}

\* The bytes readBinary can yield: a byte is written as the ASCII character it
\* encodes, or as its hexadecimal value.
FileByteValues == {"-", "0xFF"}

FileData == SeqsOver(FileByteValues, MaxFileLen)

\* file.name values; "e_acute" stands for the one character U+00E9.
FileNames ==
    {<<"a", ".", "p", "d", "f">>, <<"e_acute", ".", "P", "D", "F">>,
     <<"s", ".", "p", "n", "g">>}

\* String.prototype.toLowerCase, on one character.
Lower(c) ==
    CASE c = "P" -> "p" [] c = "D" -> "d" [] c = "F" -> "f" [] OTHER -> c

\* name.toLowerCase().split('.').pop()
RECURSIVE Extension(_)
Extension(n) ==
    IF n = <<>> THEN <<>>
    ELSE LET rest == Extension(SubSeq(n, 1, Len(n) - 1))
             last == n[Len(n)]
         IN  IF last = "." THEN <<>>
             ELSE IF \E i \in 1..(Len(n) - 1) : n[i] = "." THEN Append(rest, Lower(last))
             ELSE [i \in 1..Len(n) |-> Lower(n[i])]

\* const isPDF = fileExt === 'pdf'
IsPDFName(n) == Extension(n) = <<"p", "d", "f">>

\* data: <<>> until readBinary resolves, then <<bytes>> (kept only where the
\* request body built from the bytes is modelled).
Files ==
    {[isPDF |-> IsPDFName(n), fsAdapter |-> a, name |-> n, data |-> <<>>] :
        n \in FileNames, a \in BOOLEAN}

\* Outcome of one health request: a status, or a thrown value.
HealthOutcomes ==
    {[threw |-> FALSE, status |-> s, err |-> <<>>] : s \in {200, 204, 404, 500}}
    \cup {[threw |-> TRUE, status |-> 0, err |-> <<e>>] : e \in ThrownValues}

\* The environment of one testConnection call: the answers of the primary
\* (/models) and fallback (/) paths, and the call's silent parameter.
HealthEnvs == [primary : HealthOutcomes, alt : HealthOutcomes, silent : BOOLEAN]

NoEnv == [primary |-> [threw |-> FALSE, status |-> 0, err |-> <<>>],
          alt |-> [threw |-> FALSE, status |-> 0, err |-> <<>>],
          silent |-> FALSE]

NoSettings == [hasApiKey |-> FALSE, movePDFtoFolder |-> FALSE,
               deleteOriginal |-> FALSE]

NoFile == [isPDF |-> FALSE, fsAdapter |-> TRUE, name |-> <<>>, data |-> <<>>]

\* 'No text extracted', the literal the local variants substitute.
NoTextExtracted ==
    <<"N", "o", " ", "t", "e", "x", "t", " ", "e", "x", "t", "r", "a", "c", "t", "e", "d">>

Notice(type, src, msg, status) ==
    [type |-> type, src |-> src, msg |-> msg, status |-> status]

(***************************************************************************)
(* Response classification (the code between the await of requestUrl and   *)
(* the next await or return)                                               *)
(***************************************************************************)

\* Mutants of IsErrorStatus: only server errors are errors; any 2xx is a success.
IsErrorStatus_ServerOnly(status) == status >= 500

IsErrorStatus_Non2xx(status) == status < 200 \/ status > 299

\* if (response.status !== 200)
IsErrorStatus(status) == status # 200

\* JSON.parse(response.text) throws a SyntaxError.
JsonParseThrows(body) == body.kind = "text"

\* The statements of a try block throw: JSON.parse does, or the first property
\* read of the parsed value does (a TypeError when the value is null).
TryBlockThrows(body) == JsonParseThrows(body) \/ body.kind = "null"

\* The Notice of the non-200 branch.
HttpErrorNotice(v, status, body) ==
    IF TryBlockThrows(body)
    THEN IF body.rawEmpty
         THEN Notice("failure", "httpNoDetails", <<>>, status)
         ELSE Notice("failure", "httpRaw", <<>>, status)
    ELSE IF v = "cloud"
         THEN IF TruthyMsg(body.msg)
              THEN Notice("failure", "envelopeMsg", body.msg, 0)
              ELSE Notice("failure", "httpStatus", <<>>, status)
         ELSE IF TruthyMsg(body.errMessage)
              THEN Notice("failure", "envelopeMsg", body.errMessage, 0)
              ELSE IF TruthyMsg(body.message)
                   THEN Notice("failure", "envelopeMsg", body.message, 0)
                   ELSE Notice("failure", "httpStatus", <<>>, status)

\* Mutant of BackendFailed: a response that carries text is taken as a success.
BackendFailed_UnlessText(body) == body.code # <<0>> /\ ~TruthyText(body.md_result)

\* if (responseData.code !== 0)
BackendFailed(body) == body.code # <<0>>

\* responseData.data?.md_result || ''
CloudText(body) == IF TruthyText(body.md_result) THEN body.md_result[1] ELSE <<>>

\* String.prototype.trim on a text.
RECURSIVE Trim(_)
Trim(t) ==
    IF t = <<>> THEN t
    ELSE IF Head(t) = " " THEN Trim(Tail(t))
    ELSE IF t[Len(t)] = " " THEN Trim(SubSeq(t, 1, Len(t) - 1))
    ELSE t

\* Mutant of LocalText: the extracted content is trimmed.
LocalText_Trimmed(body) ==
    IF TruthyText(body.content) THEN Trim(body.content[1]) ELSE NoTextExtracted

\* responseData.choices?.[0]?.message?.content || 'No text extracted'
LocalText(body) == IF TruthyText(body.content) THEN body.content[1] ELSE NoTextExtracted

\* The branch taken on a response, with the Notice and console.error of a
\* failing branch, or the markdown of the ConversionResult that is handed on.
Branch(kind, notice, log, md) ==
    [kind |-> kind, notice |-> notice, log |-> log, md |-> md]

Classify(v, r) ==
    IF IsErrorStatus(r.status)
    THEN Branch("HttpError", <<HttpErrorNotice(v, r.status, r.body)>>,
                IF TryBlockThrows(r.body) THEN <<"error:http-raw">>
                                          ELSE <<"error:response">>, <<>>)
    ELSE IF TryBlockThrows(r.body)
    THEN Branch("MalformedResponse", <<Notice("failure", "parse", <<>>, 0)>>,
                <<"error:parse">>, <<>>)
    ELSE IF v = "cloud"
    THEN IF BackendFailed(r.body)
         THEN Branch("BackendError", <<Notice("failure", "backendMsg", r.body.msg, 0)>>,
                     <<"error:api">>, <<>>)
         ELSE IF CloudText(r.body) = <<>>
         THEN Branch("EmptyResult", <<Notice("failure", "noText", <<>>, 0)>>,
                     <<"error:no-data">>, <<>>)
         ELSE Branch("Handoff", <<>>, <<>>, <<CloudText(r.body)>>)
    ELSE Branch("Handoff", <<>>, <<>>, <<LocalText(r.body)>>)

\* The POST each variant builds.
\* boundary: the token of the Content-Type header; body: the bytes of a
\* multipart body (both <<>> for the JSON requests, whose body is not modelled).
PostRequest(v, f) ==
    IF v = "cloud"
    THEN [method |-> "POST", path |-> "/api/paas/v4/layout_parsing", encoding |-> "json",
          boundary |-> <<>>, body |-> <<>>]
    ELSE IF v = "localMultipart" /\ f.isPDF
    THEN [method |-> "POST", path |-> "/v1/chat/completions", encoding |-> "multipart",
          boundary |-> <<>>, body |-> <<>>]
    ELSE [method |-> "POST", path |-> "/chat/completions", encoding |-> "json",
          boundary |-> <<>>, body |-> <<>>]

GetRequest(path) ==
    [method |-> "GET", path |-> path, encoding |-> "none", boundary |-> <<>>,
     body |-> <<>>]

(***************************************************************************)
(* The multipart body of the local multipart variant                       *)
(***************************************************************************)
Dashes == <<"-", "-">>

CRLF == <<"\r", "\n">>

\* '----WebKitFormBoundary'
BoundaryPrefix ==
    <<"-", "-", "-", "-", "W", "e", "b", "K", "i", "t", "F", "o", "r", "m", "B", "o",
      "u", "n", "d", "a", "r", "y">>

\* Math.random().toString(36).substring(2): samples, the empty string included.
BoundarySuffixes == {<<>>, <<"k", "3">>}

\* 'Content-Disposition: form-data; name="file"; filename="'
FileDisposition ==
    <<"C", "o", "n", "t", "e", "n", "t", "-", "D", "i", "s", "p", "o", "s", "i", "t",
      "i", "o", "n", ":", " ", "f", "o", "r", "m", "-", "d", "a", "t", "a", ";", " ",
      "n", "a", "m", "e", "=", "\"", "f", "i", "l", "e", "\"", ";", " ", "f", "i", "l",
      "e", "n", "a", "m", "e", "=", "\"">>

\* '"\r\nContent-Type: application/pdf\r\n\r\n'
FileHeaderEnd ==
    <<"\"", "\r", "\n", "C", "o", "n", "t", "e", "n", "t", "-", "T", "y", "p", "e",
      ":", " ", "a", "p", "p", "l", "i", "c", "a", "t", "i", "o", "n", "/", "p", "d",
      "f", "\r", "\n", "\r", "\n">>

\* 'Content-Disposition: form-data; name="prompt"\r\n\r\n'
PromptDisposition ==
    <<"C", "o", "n", "t", "e", "n", "t", "-", "D", "i", "s", "p", "o", "s", "i", "t",
      "i", "o", "n", ":", " ", "f", "o", "r", "m", "-", "d", "a", "t", "a", ";", " ",
      "n", "a", "m", "e", "=", "\"", "p", "r", "o", "m", "p", "t", "\"", "\r", "\n",
      "\r", "\n">>

\* The prompt of the multipart request.
PromptText ==
    <<"E", "x", "t", "r", "a", "c", "t", " ", "a", "l", "l", " ", "t", "e", "x", "t",
      " ", "f", "r", "o", "m", " ", "t", "h", "i", "s", " ", "d", "o", "c", "u", "m",
      "e", "n", "t", ".", " ", "P", "r", "e", "s", "e", "r", "v", "e", " ", "t", "h",
      "e", " ", "s", "t", "r", "u", "c", "t", "u", "r", "e", ",", " ", "t", "a", "b",
      "l", "e", "s", ",", " ", "a", "n", "d", " ", "f", "o", "r", "m", "a", "t", "t",
      "i", "n", "g", " ", "a", "s", " ", "m", "u", "c", "h", " ", "a", "s", " ", "p",
      "o", "s", "s", "i", "b", "l", "e", ".">>

\* const boundary = '----WebKitFormBoundary' + Math.random()...
Boundary(sfx) == BoundaryPrefix \o sfx

Part(isText, v) == [text |-> isText, v |-> v]

\* Mutant of Parts: the line break after the file bytes is left out.
Parts_NoBreakAfterFile(b, name, data) ==
    <<Part(TRUE, Dashes \o b \o CRLF \o FileDisposition \o name \o FileHeaderEnd),
      Part(FALSE, data),
      Part(TRUE, Dashes \o b \o CRLF \o PromptDisposition \o PromptText \o CRLF),
      Part(TRUE, Dashes \o b \o Dashes \o CRLF)>>

\* The parts array: strings, and the file bytes as a Uint8Array.
Parts(b, name, data) ==
    <<Part(TRUE, Dashes \o b \o CRLF \o FileDisposition \o name \o FileHeaderEnd),
      Part(FALSE, data),
      Part(TRUE, CRLF),
      Part(TRUE, Dashes \o b \o CRLF \o PromptDisposition \o PromptText \o CRLF),
      Part(TRUE, Dashes \o b \o Dashes \o CRLF)>>

\* The UTF-8 bytes of one character: an ASCII character is one byte (written as
\* the character), U+00E9 is two.
Utf8(c) == IF c = "e_acute" THEN <<"0xC3", "0xA9">> ELSE <<c>>

\* new TextEncoder().encode(part)
RECURSIVE TextEncode(_)
TextEncode(str) ==
    IF str = <<>> THEN <<>>
    ELSE IF Len(str) = 1 THEN Utf8(str[1])
    ELSE LET h == Len(str) \div 2
         IN  TextEncode(SubSeq(str, 1, h)) \o TextEncode(SubSeq(str, h + 1, Len(str)))

\* bodyParts: every string part encoded, the byte part as it is.
BodyParts(parts) ==
    [i \in 1..Len(parts) |->
        IF parts[i].text THEN TextEncode(parts[i].v) ELSE parts[i].v]

\* totalLength: the sum of part.length over bodyParts.
RECURSIVE TotalLength(_)
TotalLength(bodyParts) ==
    IF bodyParts = <<>> THEN 0
    ELSE Len(Head(bodyParts)) + TotalLength(Tail(bodyParts))

\* The loop of body.set(part, offset); offset += part.length, from part i on.
RECURSIVE SetParts(_, _, _, _)
SetParts(body, bodyParts, i, offset) ==
    IF i > Len(bodyParts) THEN body
    ELSE LET part == bodyParts[i]
         IN  SetParts([k \in 1..Len(body) |->
                          IF k > offset /\ k <= offset + Len(part)
                          THEN part[k - offset] ELSE body[k]],
                      bodyParts, i + 1, offset + Len(part))

\* new Uint8Array(totalLength), filled from the parts.
MultipartBody(b, name, data) ==
    LET bodyParts == BodyParts(Parts(b, name, data))
        zeros == [k \in 1..TotalLength(bodyParts) |-> "0x00"]
    IN  SetParts(zeros, bodyParts, 1, 0)

\* The request of a call whose file holds the bytes data.
BuiltRequest(v, f, data, sfx) ==
    IF PostRequest(v, f).encoding = "multipart"
    THEN [PostRequest(v, f) EXCEPT !.boundary = Boundary(sfx),
                                   !.body = MultipartBody(Boundary(sfx), f.name, data)]
    ELSE PostRequest(v, f)

(***************************************************************************)
(* convert                                                                 *)
(***************************************************************************)
Init ==
    /\ variant \in Variants
    /\ pc = "idle"
    /\ settings = NoSettings
    /\ file = NoFile
    /\ requests = <<>>
    /\ response = <<>>
    /\ thrown = <<>>
    /\ handed = <<>>
    /\ persisted = FALSE
    /\ renamed = FALSE
    /\ deleted = FALSE
    /\ notices = <<>>
    /\ logs = <<>>
    /\ result = "pending"
    /\ outcome = "none"
    /\ tcEnv = NoEnv

\* return b, from the branch named kind.
Return(b, kind) ==
    /\ pc' = "done"
    /\ result' = b
    /\ outcome' = kind

\* A new call starts with nothing issued, shown or logged.
FreshCall ==
    /\ pc = "idle"
    /\ requests' = <<>>
    /\ response' = <<>>
    /\ thrown' = <<>>
    /\ handed' = <<>>
    /\ persisted' = FALSE
    /\ renamed' = FALSE
    /\ deleted' = FALSE
    /\ notices' = <<>>
    /\ logs' = <<>>
    /\ result' = "pending"
    /\ outcome' = "none"

\* The inputs a variant never reads are held at their defaults: the local
\* variants have no API key setting, and only glmocrConverter.ts looks at the
\* vault adapter.
ReadsInputs(v, s, f) ==
    /\ (v # "cloud" => ~s.hasApiKey)
    /\ (v # "localJSON" => f.fsAdapter)

\* convert is called: it awaits prepareConversion.
ConvertStart ==
    /\ FreshCall
    /\ \E s \in SettingsSet, f \in Files :
         /\ ReadsInputs(variant, s, f)
         /\ settings' = s
         /\ file' = f
    /\ tcEnv' = NoEnv
    /\ pc' = "prepare"
    /\ UNCHANGED variant

\* prepareConversion resolved; up to the await of readBinary.
Prepared(ok) ==
    /\ pc = "prepare"
    /\ IF ~ok
       THEN /\ Return("false", "NotPrepared")
            /\ UNCHANGED <<notices, logs>>
       ELSE IF variant = "cloud" /\ ~settings.hasApiKey
       THEN /\ notices' = notices \o <<Notice("progress", "converting", <<>>, 0),
                                       Notice("failure", "noApiKey", <<>>, 0)>>
            /\ Return("false", "ConfigError")
            /\ UNCHANGED logs
       ELSE /\ notices' = Append(notices, Notice("progress", "converting", <<>>, 0))
            /\ logs' = IF variant = "localJSON" /\ ~file.fsAdapter
                       THEN Append(logs, "warn:adapter") ELSE logs
            /\ pc' = "read"
            /\ UNCHANGED <<result, outcome>>
    /\ UNCHANGED <<variant, settings, file, requests, response, thrown, handed,
                   persisted, renamed, deleted, tcEnv>>

\* catch (error) of the outer try: error.message is read before anything is
\* logged or shown, and reading it throws when error is null or undefined.
OuterCatch(e) ==
    /\ thrown' = <<e>>
    /\ IF e.nullish
       THEN /\ Return("threw", "Uncaught")
            /\ UNCHANGED <<notices, logs>>
       ELSE /\ logs' = Append(logs, "error:conversion")
            /\ notices' = Append(notices,
                   IF TruthyMsg(e.message)
                   THEN Notice("failure", "thrownMsg", e.message, 0)
                   ELSE Notice("failure", "thrownDefault", <<>>, 0))
            /\ Return("false", "TransportError")

\* catch (parseError) of the inner try.
InnerCatch(e) ==
    /\ thrown' = <<e>>
    /\ logs' = Append(logs, "error:parse")
    /\ notices' = Append(notices, Notice("failure", "parse", <<>>, 0))
    /\ Return("false", "MalformedResponse")

\* Mutant of ReadDone: the request is issued twice.
ReadDone_Twice ==
    /\ pc = "read"
    /\ requests' = requests \o <<PostRequest(variant, file), PostRequest(variant, file)>>
    /\ pc' = "send"
    /\ UNCHANGED <<variant, settings, file, response, thrown, handed, persisted,
                   renamed, deleted, notices, logs, result, outcome, tcEnv>>

\* readBinary resolved: the request is built and requestUrl is called.
ReadDone ==
    /\ pc = "read"
    /\ IF PostRequest(variant, file).encoding = "multipart"
       THEN \E data \in FileData, sfx \in BoundarySuffixes :
                /\ file' = [file EXCEPT !.data = <<data>>]
                /\ requests' = Append(requests, BuiltRequest(variant, file, data, sfx))
       ELSE /\ requests' = Append(requests, PostRequest(variant, file))
            /\ UNCHANGED file
    /\ pc' = "send"
    /\ UNCHANGED <<variant, settings, response, thrown, handed, persisted,
                   renamed, deleted, notices, logs, result, outcome, tcEnv>>

ReadThrows(e) ==
    /\ pc = "read"
    /\ OuterCatch(e)
    /\ UNCHANGED <<variant, settings, file, requests, response, handed, persisted,
                   renamed, deleted, tcEnv>>

SendThrows(e) ==
    /\ pc = "send"
    /\ OuterCatch(e)
    /\ UNCHANGED <<variant, settings, file, requests, response, handed, persisted,
                   renamed, deleted, tcEnv>>

\* requestUrl resolved with r (throw: false): the response is classified, and
\* either convert returns false or processConversionResult is called.
Receive ==
    /\ pc = "send"
    /\ \E r \in Responses :
         /\ response' = <<r>>
         /\ LET b == Classify(variant, r)
            IN  IF b.kind = "Handoff"
                THEN /\ handed' = Append(handed, b.md[1])
                     /\ pc' = "persist"
                     /\ UNCHANGED <<notices, logs, result, outcome>>
                ELSE /\ notices' = notices \o b.notice
                     /\ logs' = logs \o b.log
                     /\ Return("false", b.kind)
                     /\ UNCHANGED handed
    /\ UNCHANGED <<variant, settings, file, requests, thrown, persisted, renamed,
                   deleted, tcEnv>>

\* Mutant of AfterPersist: the original is deleted before it is moved.
AfterPersist_DeleteFirst(fromRename) ==
    IF fromRename /\ settings.deleteOriginal
    THEN pc' = "delete" /\ UNCHANGED <<result, outcome>>
    ELSE IF fromRename /\ settings.movePDFtoFolder
    THEN pc' = "rename" /\ UNCHANGED <<result, outcome>>
    ELSE Return("true", "Success")

\* The post-steps that remain after processConversionResult, from the rename on
\* (fromRename) or from the delete on.
AfterPersist(fromRename) ==
    IF fromRename /\ settings.movePDFtoFolder
    THEN pc' = "rename" /\ UNCHANGED <<result, outcome>>
    ELSE IF settings.deleteOriginal
    THEN pc' = "delete" /\ UNCHANGED <<result, outcome>>
    ELSE Return("true", "Success")

PersistDone ==
    /\ pc = "persist"
    /\ persisted' = TRUE
    /\ notices' = Append(notices, Notice("completed", "completed", <<>>, 0))
    /\ AfterPersist(TRUE)
    /\ UNCHANGED <<variant, settings, file, requests, response, thrown, handed,
                   renamed, deleted, logs, tcEnv>>

PersistThrows(e) ==
    /\ pc = "persist"
    /\ InnerCatch(e)
    /\ UNCHANGED <<variant, settings, file, requests, response, handed, persisted,
                   renamed, deleted, tcEnv>>

RenameDone ==
    /\ pc = "rename"
    /\ renamed' = TRUE
    /\ AfterPersist(FALSE)
    /\ UNCHANGED <<variant, settings, file, requests, response, thrown, handed,
                   persisted, deleted, notices, logs, tcEnv>>

RenameThrows(e) ==
    /\ pc = "rename"
    /\ InnerCatch(e)
    /\ UNCHANGED <<variant, settings, file, requests, response, handed, persisted,
                   renamed, deleted, tcEnv>>

DeleteDone ==
    /\ pc = "delete"
    /\ deleted' = TRUE
    /\ Return("true", "Success")
    /\ UNCHANGED <<variant, settings, file, requests, response, thrown, handed,
                   persisted, renamed, notices, logs, tcEnv>>

DeleteThrows(e) ==
    /\ pc = "delete"
    /\ InnerCatch(e)
    /\ UNCHANGED <<variant, settings, file, requests, response, handed, persisted,
                   renamed, deleted, tcEnv>>

(***************************************************************************)
(* testConnection                                                          *)
(***************************************************************************)

\* if (!silent) new Notice(...)
Say(env, n) == IF env.silent THEN notices ELSE Append(notices, n)

\* The variant has the fallback request to the root path.
HasFallback(v) == v # "cloud"

\* The catch block reads error.message (which throws for null or undefined).
CatchReadsMessage(v) == v # "localJSON"

\* Mutant of IsHealthy: any 2xx status counts as a healthy answer.
IsHealthy_Any2xx(status) == status >= 200 /\ status <= 299

\* if (response.status === 200)
IsHealthy(status) == status = 200

\* testConnection is called; up to the await of the GET of /models.
TCStart ==
    /\ pc = "idle"
    /\ \E s \in SettingsSet, env \in HealthEnvs :
         /\ ReadsInputs(variant, s, NoFile)
         /\ ~s.movePDFtoFolder /\ ~s.deleteOriginal
         /\ settings' = s
         /\ tcEnv' = env
         /\ IF variant = "cloud" /\ ~s.hasApiKey
            THEN /\ notices' = Say(env, Notice("failure", "noApiKey", <<>>, 0))
                 /\ pc' = "done"
                 /\ result' = "false"
                 /\ outcome' = "tcConfigError"
                 /\ requests' = <<>>
            ELSE /\ requests' = <<GetRequest("/models")>>
                 /\ pc' = "tcPrimary"
                 /\ notices' = <<>>
                 /\ result' = "pending"
                 /\ outcome' = "none"
    /\ file' = NoFile
    /\ response' = <<>>
    /\ thrown' = <<>>
    /\ handed' = <<>>
    /\ persisted' = FALSE
    /\ renamed' = FALSE
    /\ deleted' = FALSE
    /\ logs' = <<>>
    /\ UNCHANGED variant

\* catch (error) of testConnection.
TCCatch(e) ==
    /\ thrown' = <<e>>
    /\ IF CatchReadsMessage(variant) /\ e.nullish
       THEN /\ Return("threw", "tcUncaught")
            /\ UNCHANGED <<notices, logs>>
       ELSE /\ notices' = Say(tcEnv, Notice("failure", "connection", e.message, 0))
            /\ logs' = Append(logs, "error:connecting")
            /\ Return("false", "tcThrown")

\* The failure report when no request returned 200.
TCFail(status) ==
    /\ notices' = Say(tcEnv, Notice("failure", "httpStatus", <<>>, status))
    /\ logs' = IF variant = "localJSON" THEN logs
               ELSE Append(logs, "error:connection")
    /\ Return("false", "tcHttp")

TCSucceed ==
    /\ notices' = Say(tcEnv, Notice("completed", "connected", <<>>, 0))
    /\ Return("true", "tcOk")
    /\ UNCHANGED logs

\* The GET of /models settles.
TCPrimary ==
    /\ pc = "tcPrimary"
    /\ LET o == tcEnv.primary
       IN  IF o.threw
           THEN TCCatch(o.err[1]) /\ UNCHANGED requests
           ELSE IF IsHealthy(o.status)
           THEN TCSucceed /\ UNCHANGED <<requests, thrown>>
           ELSE IF HasFallback(variant)
           THEN /\ requests' = Append(requests, GetRequest("/"))
                /\ pc' = "tcAlt"
                /\ UNCHANGED <<thrown, notices, logs, result, outcome>>
           ELSE TCFail(o.status) /\ UNCHANGED <<requests, thrown>>
    /\ UNCHANGED <<variant, settings, file, response, handed, persisted, renamed,
                   deleted, tcEnv>>

\* The GET of / settles; what it throws is ignored (catch {}).
TCAlt ==
    /\ pc = "tcAlt"
    /\ LET o == tcEnv.alt
       IN  IF ~o.threw /\ IsHealthy(o.status)
           THEN TCSucceed /\ UNCHANGED thrown
           ELSE /\ TCFail(tcEnv.primary.status)
                /\ thrown' = IF o.threw THEN o.err ELSE thrown
    /\ UNCHANGED <<variant, settings, file, requests, response, handed, persisted,
                   renamed, deleted, tcEnv>>

\* The caller has the settled promise; the converter keeps nothing of the call.
CallReturns ==
    /\ pc = "done"
    /\ pc' = "idle"
    /\ settings' = NoSettings
    /\ file' = NoFile
    /\ requests' = <<>>
    /\ response' = <<>>
    /\ thrown' = <<>>
    /\ handed' = <<>>
    /\ persisted' = FALSE
    /\ renamed' = FALSE
    /\ deleted' = FALSE
    /\ notices' = <<>>
    /\ logs' = <<>>
    /\ result' = "pending"
    /\ outcome' = "none"
    /\ tcEnv' = NoEnv
    /\ UNCHANGED variant

(***************************************************************************)
(* Specification                                                           *)
(***************************************************************************)
Next ==
    \/ ConvertStart
    \/ \E ok \in BOOLEAN : Prepared(ok)
    \/ ReadDone
    \/ \E e \in ThrownValues : ReadThrows(e)
    \/ Receive
    \/ \E e \in ThrownValues : SendThrows(e)
    \/ PersistDone
    \/ \E e \in ThrownValues : PersistThrows(e)
    \/ RenameDone
    \/ \E e \in ThrownValues : RenameThrows(e)
    \/ DeleteDone
    \/ \E e \in ThrownValues : DeleteThrows(e)
    \/ TCStart
    \/ TCPrimary
    \/ TCAlt
    \/ CallReturns

Spec == Init /\ [][Next]_vars

(***************************************************************************)
(* Properties                                                              *)
(***************************************************************************)
TCOutcomes == {"tcConfigError", "tcUncaught", "tcThrown", "tcHttp", "tcOk"}

\* A convert call has settled (returned or rejected).
ConvertSettled == pc = "done" /\ outcome \notin TCOutcomes

\* A testConnection call has settled.
TCSettled == pc = "done" /\ outcome \in TCOutcomes

\* The POST of the running convert call was answered.
Answered == response # <<>>

FailureNotices == SelectSeq(notices, LAMBDA n : n.type = "failure")

\* The success indicator of the envelope is OK (only the cloud envelope has one).
IndicatorOk(b) == b.kind = "object" /\ (variant = "cloud" => b.code = <<0>>)

\* The field the variant extracts the text from.
TextField(b) == IF variant = "cloud" THEN b.md_result ELSE b.content

\* A status-200 success envelope whose text field is empty or absent.
EmptyEnvelope(r) ==
    r.status = 200 /\ IndicatorOk(r.body) /\ ~TruthyText(TextField(r.body))

\* A status-200 success envelope whose text field is a non-empty string.
FullEnvelope(r) ==
    r.status = 200 /\ IndicatorOk(r.body) /\ TruthyText(TextField(r.body))

\* The post-steps the settings ask for have completed.
PostStepsDone ==
    /\ (settings.movePDFtoFolder => renamed)
    /\ (settings.deleteOriginal => deleted)

\* C1 (as claimed): in every variant, a status-200 success envelope whose text
\* field is empty or absent ends convert in Failure{EmptyResult}: it returns
\* false, nothing is handed to processConversionResult, and the literal
\* 'No text extracted' is never handed on as note content.
C1_EmptyTextIsEmptyResult ==
    (Answered /\ EmptyEnvelope(response[1])) =>
        /\ pc = "done" /\ result = "false" /\ outcome = "EmptyResult"
        /\ handed = <<>>

\* C2 (as claimed): on a status-200 success envelope with non-empty text T,
\* convert returns true and the markdown handed on is exactly T.
C2_FullEnvelopeReturnsTrue ==
    (ConvertSettled /\ Answered /\ FullEnvelope(response[1])) =>
        /\ result = "true"
        /\ handed = <<TextField(response[1].body)[1]>>

\* C2 (amended): on a status-200 success envelope with non-empty text T, exactly
\* one ConversionResult is handed to processConversionResult and its markdown is
\* T, unchanged; convert then returns true if processConversionResult and the
\* post-steps the settings ask for complete, and false if one of them throws.
C2_FullEnvelopeHandsTextVerbatim ==
    (Answered /\ FullEnvelope(response[1])) =>
        /\ handed = <<TextField(response[1].body)[1]>>
        /\ pc \in {"persist", "rename", "delete", "done"}
        /\ (pc = "done" =>
               /\ result \in {"true", "false"}
               /\ (result = "true" <=> (persisted /\ PostStepsDone /\ thrown = <<>>))
               /\ (result = "false" <=> thrown # <<>>))

\* A text with leading and trailing blanks went through and convert returned true.
C2_Witness ==
    /\ ConvertSettled /\ Answered /\ FullEnvelope(response[1])
    /\ variant # "cloud"
    /\ response[1].body.content = <<(<<" ", "a">>)>>
    /\ handed = <<(<<" ", "a">>)>>
    /\ result = "true"

\* C3: a response with status 401, 403 or 500, whatever its body, ends convert
\* in Failure{HttpError}: it returns false, does not throw, and nothing is
\* handed to processConversionResult.
C3_ErrorStatusIsHttpError ==
    (Answered /\ response[1].status \in {401, 403, 500}) =>
        /\ pc = "done" /\ result = "false" /\ outcome = "HttpError"
        /\ handed = <<>> /\ ~persisted
        /\ Len(FailureNotices) = 1

\* A 401 whose body is the JSON value null was classified.
C3_Witness ==
    /\ Answered /\ response[1].status = 401 /\ response[1].body.kind = "null"
    /\ pc = "done" /\ outcome = "HttpError"

C5_MalformedIffUnparseable ==
    /\ (Answered /\ response[1].status = 200 /\ JsonParseThrows(response[1].body)) =>
           /\ pc = "done" /\ result = "false" /\ outcome = "MalformedResponse"
           /\ handed = <<>>
    /\ (ConvertSettled /\ outcome = "MalformedResponse") =>
           /\ Answered
           /\ TryBlockThrows(response[1].body)

\* C6 (as claimed): testConnection returns true iff the primary path or the
\* fallback root path answers 200, for every combination of answers of the two
\* paths (200, non-200, thrown connection error), and never throws.
C6_TrueIffEitherPath200 ==
    (TCSettled /\ variant # "cloud"
       /\ (tcEnv.primary.threw => ~tcEnv.primary.err[1].nullish)
       /\ (tcEnv.alt.threw => ~tcEnv.alt.err[1].nullish)) =>
        /\ result \in {"true", "false"}
        /\ (result = "true" <=>
               \/ (~tcEnv.primary.threw /\ tcEnv.primary.status = 200)
               \/ (~tcEnv.alt.threw /\ tcEnv.alt.status = 200))

\* C6 (amended): testConnection returns true iff the primary path answers 200,
\* or (local variants) the primary path answers a non-200 status and the
\* fallback root path then answers 200.  When the primary request throws the
\* fallback is not tried and the result is false; the cloud variant has no
\* fallback and returns false without a request when the API key is empty.  For
\* every combination of 200, non-200 and thrown connection error the call
\* returns a boolean; it rejects only when the thrown value is null or undefined.
C6_TrueIffReached200 ==
    TCSettled =>
        LET p == tcEnv.primary
            a == tcEnv.alt
            primaryOk == ~p.threw /\ p.status = 200
            altOk == ~p.threw /\ p.status # 200 /\ ~a.threw /\ a.status = 200
        IN  /\ (result = "true" <=>
                   IF variant = "cloud" THEN settings.hasApiKey /\ primaryOk
                   ELSE primaryOk \/ altOk)
            /\ (result = "threw" =>
                   /\ variant # "localJSON"
                   /\ (variant = "cloud" => settings.hasApiKey)
                   /\ p.threw /\ p.err[1].nullish)
            /\ result \in {"true", "false", "threw"}
            /\ (p.threw => Len(requests) <= 1)

\* The primary request threw a connection error, the fallback path would have
\* answered 200, and testConnection returned false.
C6_Witness ==
    /\ TCSettled /\ variant = "localMultipart"
    /\ tcEnv.primary.threw /\ ~tcEnv.primary.err[1].nullish
    /\ ~tcEnv.alt.threw /\ tcEnv.alt.status = 200
    /\ result = "false"

\* C7 (as claimed): every failure path of convert logs at least one console
\* diagnostic and shows exactly one failure Notice before it returns false.
C7_FailureLogsAndNotifiesOnce ==
    (ConvertSettled /\ outcome \in {"ConfigError", "HttpError", "MalformedResponse",
                                    "BackendError", "EmptyResult", "TransportError"}) =>
        /\ result = "false"
        /\ Len(logs) >= 1
        /\ Len(FailureNotices) = 1

\* C8 (as claimed): whatever readBinary or requestUrl throws, convert does not
\* propagate it: the call ends with false and nothing is handed on.
C8_ThrownNeverPropagates ==
    (ConvertSettled /\ thrown # <<>> /\ ~Answered) =>
        /\ result = "false"
        /\ handed = <<>>

\* C9: a convert call that reaches the send step issues exactly one POST and
\* never a second request, whatever the outcome; a call rejected by the
\* configuration check issues none.
C9_ExactlyOnePost ==
    /\ (pc \in {"prepare", "read"} => requests = <<>>)
    /\ (pc \in {"send", "persist", "rename", "delete"} =>
           Len(requests) = 1 /\ requests[1].method = "POST")
    /\ (ConvertSettled =>
           /\ Len(requests) <= 1
           /\ \A i \in 1..Len(requests) : requests[i].method = "POST"
           /\ ((Answered \/ persisted) => Len(requests) = 1)
           /\ (outcome \in {"ConfigError", "NotPrepared"} => requests = <<>>))

\* A call whose POST was answered with an error status settled after one request.
C9_Witness ==
    /\ ConvertSettled /\ Answered /\ outcome = "HttpError"
    /\ Len(requests) = 1 /\ requests[1].method = "POST"

\* C10: in the cloud variant a status-200 envelope with a non-zero code ends
\* convert in Failure{BackendError} whose message is the envelope's msg: it
\* returns false and nothing is handed on, even when md_result holds text.
C10_NonZeroCodeIsBackendError ==
    (variant = "cloud" /\ Answered /\ response[1].status = 200
       /\ response[1].body.kind = "object"
       /\ response[1].body.code # <<>> /\ response[1].body.code # <<0>>) =>
        /\ pc = "done" /\ result = "false" /\ outcome = "BackendError"
        /\ handed = <<>> /\ ~persisted
        /\ Len(FailureNotices) = 1
        /\ FailureNotices[1].msg = response[1].body.msg

\* code 1 with msg 'quota exceeded' and a non-empty md_result was rejected.
C10_Witness ==
    /\ variant = "cloud" /\ Answered /\ response[1].status = 200
    /\ response[1].body.code = <<1>>
    /\ response[1].body.msg = <<"quota exceeded">>
    /\ TruthyText(response[1].body.md_result)
    /\ pc = "done" /\ outcome = "BackendError"
    /\ FailureNotices[1].msg = <<"quota exceeded">>

\* C11: for a PDF of N bytes sent by the local multipart variant, the request
\* body is, in order: the boundary line and headers of one part named 'file',
\* the N file bytes unchanged, the boundary line and headers of one part named
\* 'prompt' with the fixed prompt text, and the closing boundary marker; every
\* delimiter uses the token the Content-Type header declares, and the body
\* length is the sum of the lengths of these pieces.  (Stated where the request
\* has just been issued; the call does not touch it afterwards.)
C11_MultipartLayout ==
    \A i \in 1..Len(requests) :
        (pc = "send" /\ requests[i].encoding = "multipart") =>
            LET r == requests[i]
                delim == TextEncode(Dashes \o r.boundary)
                eol == TextEncode(CRLF)
                fileHead == delim \o eol
                            \o TextEncode(FileDisposition \o file.name \o FileHeaderEnd)
                promptPart == eol \o delim \o eol
                              \o TextEncode(PromptDisposition \o PromptText) \o eol
                closing == delim \o TextEncode(Dashes) \o eol
                N == Len(file.data[1])
            IN  /\ file.isPDF /\ file.data # <<>>
                /\ SubSeq(r.boundary, 1, Len(BoundaryPrefix)) = BoundaryPrefix
                /\ Len(r.body) = Len(fileHead) + N + Len(promptPart) + Len(closing)
                /\ SubSeq(r.body, 1, Len(fileHead)) = fileHead
                /\ SubSeq(r.body, Len(fileHead) + 1, Len(fileHead) + N) = file.data[1]
                /\ SubSeq(r.body, Len(fileHead) + N + 1,
                          Len(fileHead) + N + Len(promptPart)) = promptPart
                /\ SubSeq(r.body, Len(fileHead) + N + Len(promptPart) + 1, Len(r.body))
                       = closing

\* A two-byte PDF whose name holds a non-ASCII character was sent as multipart.
C11_Witness ==
    /\ pc = "send" /\ variant = "localMultipart"
    /\ Len(requests) = 1 /\ requests[1].encoding = "multipart"
    /\ file.name[1] = "e_acute"
    /\ file.data = <<(<<"-", "0xFF">>)>>
    /\ requests[1].boundary # BoundaryPrefix

\* C12: the original file is renamed or deleted only after
\* processConversionResult has completed for the call, the rename before the
\* delete; on every path that fails before that point the file is neither
\* renamed nor deleted.
C12_PostStepsOnlyAfterPersist ==
    /\ (pc = "rename" => persisted /\ settings.movePDFtoFolder /\ ~renamed /\ ~deleted)
    /\ (pc = "delete" =>
           /\ persisted /\ settings.deleteOriginal /\ ~deleted
           /\ (settings.movePDFtoFolder => renamed))
    /\ (renamed => persisted /\ settings.movePDFtoFolder)
    /\ (deleted => persisted /\ settings.deleteOriginal
                   /\ (settings.movePDFtoFolder => renamed))
    /\ (~persisted => ~renamed /\ ~deleted /\ pc \notin {"rename", "delete"})
    /\ ((ConvertSettled /\ outcome \in {"NotPrepared", "ConfigError", "HttpError",
                                        "BackendError", "EmptyResult", "TransportError",
                                        "Uncaught"})
           => ~persisted /\ ~renamed /\ ~deleted)

\* A call with both post-steps set moved and then deleted the original.
C12_Witness ==
    /\ ConvertSettled /\ result = "true"
    /\ settings.movePDFtoFolder /\ settings.deleteOriginal
    /\ persisted /\ renamed /\ deleted

\* C13 (as claimed): convert returns true iff processConversionResult completed
\* for the call; whenever it returns false no note has been written and no
\* 'Conversion with GLM-OCR completed' Notice has been shown, also when the
\* rename or delete post-step throws.  (Calls answered with an empty envelope,
\* the case of C1, are left aside.)
C13_ResultAgreesWithPersisted ==
    (ConvertSettled /\ ~(Answered /\ EmptyEnvelope(response[1]))) =>
        /\ (result = "true" <=> persisted)
        /\ (result = "false" =>
               \A i \in 1..Len(notices) : notices[i].type # "completed")

====
